---- MODULE Spec2Model ----
(***************************************************************************)
(* State-machine model of the pixel_card_game program                      *)
(* (src/degame/src/lib.rs): the per-player session handlers                *)
(* (receive_randomness, start_game, place_bet), the global-state handlers  *)
(* (initialize, finalize_leaderboard, claim_prize) and the pure helpers    *)
(* (shuffle_deck, resolve_bet, calculate_multiplier_gain).                 *)
(*                                                                         *)
(* The handlers work on the account structs handed to them                 *)
(* (ctx.accounts.player, ctx.accounts.state) and on the lamport cells of   *)
(* the accounts.  What becomes of the writes of a call that returns an     *)
(* error is decided by the execution environment, which is not part of     *)
(* the source: the variable `atomic` records it.  Under Spec the writes    *)
(* stay as the handler made them; under SpecTx the environment discards    *)
(* the writes of every call that does not return Ok.                       *)
(***************************************************************************)
EXTENDS Integers, Sequences, FiniteSets, TLC

VARIABLES
    player,     \* the Player account (lib.rs 396-406)
    state,      \* the State account (lib.rs 379-390), with `initialized`
    lamports,   \* lamport balance of the state account and of the wallets
    now,        \* Clock::get()?.unix_timestamp
    atomic,     \* whether a failed call's writes are discarded
    last,       \* the last call: its entry point, arguments, result and prize
    nTicks,     \* clock advances so far
    nBets,      \* place_bet calls that reached resolve_bet so far
    nClaims,    \* claim_prize calls that reached the transfer so far
    paid        \* the positions claim_prize has paid so far

vars == <<player, state, lamports, now, atomic, last, nTicks, nBets, nClaims, paid>>

-----------------------------------------------------------------------------
(* Bounds of the model *)

MaxSeed == 1
MaxGameId == 1
MaxTicks == 2
MaxBets == 2
MaxClaims == 2
LateCards == 2
MaxLateSeed == 3

-----------------------------------------------------------------------------
(* Program constants *)

DAILY_LIMIT == 10
BET_SECONDS == 60
CLAIM_HOURS == 72
SECONDS_PER_HOUR == 3600
LEADERBOARD_SIZE == 3
MIN_RANK == 2
MAX_RANK == 14
LIMB_BASE == 65536
PERCENT_BASE == 100

-----------------------------------------------------------------------------
(* u64 values: four 16-bit limbs, least significant first, so that the    *)
(* checked and the wrapping operations of the source keep their width.    *)

U64FromNat(n) ==
    <<n % LIMB_BASE, (n \div LIMB_BASE) % LIMB_BASE, 0, 0>>

U64Zero == U64FromNat(0)

U64Max == <<LIMB_BASE - 1, LIMB_BASE - 1, LIMB_BASE - 1, LIMB_BASE - 1>>

\* a < b, compared from the most significant limb
U64Less(a, b) ==
    \E i \in 1..4 : /\ a[i] < b[i]
                    /\ \A j \in (i+1)..4 : a[j] = b[j]

\* u64::checked_mul by a small factor: [ok, val]
U64CheckedMul(a, k) ==
    LET p1 == a[1] * k
        p2 == a[2] * k + (p1 \div LIMB_BASE)
        p3 == a[3] * k + (p2 \div LIMB_BASE)
        p4 == a[4] * k + (p3 \div LIMB_BASE)
    IN  [ok  |-> (p4 \div LIMB_BASE) = 0,
         val |-> <<p1 % LIMB_BASE, p2 % LIMB_BASE, p3 % LIMB_BASE, p4 % LIMB_BASE>>]

\* u64::checked_div by a small divisor: [ok, val]; fails only on a zero divisor
U64CheckedDiv(a, d) ==
    IF d = 0 THEN [ok |-> FALSE, val |-> U64Zero]
    ELSE
    LET q4 == a[4] \div d
        r4 == a[4] % d
        n3 == r4 * LIMB_BASE + a[3]
        q3 == n3 \div d
        r3 == n3 % d
        n2 == r3 * LIMB_BASE + a[2]
        q2 == n2 \div d
        r2 == n2 % d
        n1 == r2 * LIMB_BASE + a[1]
        q1 == n1 \div d
    IN  [ok |-> TRUE, val |-> <<q1, q2, q3, q4>>]

\* a + b modulo 2^64, with the overflow flag
U64Add(a, b) ==
    LET s1 == a[1] + b[1]
        s2 == a[2] + b[2] + (s1 \div LIMB_BASE)
        s3 == a[3] + b[3] + (s2 \div LIMB_BASE)
        s4 == a[4] + b[4] + (s3 \div LIMB_BASE)
    IN  [overflow |-> (s4 \div LIMB_BASE) # 0,
         val |-> <<s1 % LIMB_BASE, s2 % LIMB_BASE, s3 % LIMB_BASE, s4 % LIMB_BASE>>]

\* a - b modulo 2^64, with the overflow (borrow) flag
U64Sub(a, b) ==
    LET d1 == a[1] - b[1]
        b1 == IF d1 < 0 THEN 1 ELSE 0
        d2 == a[2] - b[2] - b1
        b2 == IF d2 < 0 THEN 1 ELSE 0
        d3 == a[3] - b[3] - b2
        b3 == IF d3 < 0 THEN 1 ELSE 0
        d4 == a[4] - b[4] - b3
        b4 == IF d4 < 0 THEN 1 ELSE 0
    IN  [overflow |-> b4 = 1,
         val |-> <<d1 + b1 * LIMB_BASE, d2 + b2 * LIMB_BASE,
                   d3 + b3 * LIMB_BASE, d4 + b4 * LIMB_BASE>>]

-----------------------------------------------------------------------------
(* Cards and the deck (shuffle_deck, lib.rs 195-211) *)

SUITS == <<"Hearts", "Diamonds", "Clubs", "Spades">>

Card(suit, value) == [suit |-> suit, value |-> value]

NumRanks == MAX_RANK - MIN_RANK + 1

\* suits.iter().flat_map(|suit| values.clone().map(..)): suit-major, rank ascending
CanonicalDeck ==
    [k \in 1..(Len(SUITS) * NumRanks) |->
        Card(SUITS[((k - 1) \div NumRanks) + 1], MIN_RANK + ((k - 1) % NumRanks))]

\* The generator behind StdRng::seed_from_u64 is the rand crate's, not the
\* program's: a 16-bit linear congruential stream stands for it.  Only its
\* being a function of the seed is used.
RngSeed(randomness) == (randomness * 7919 + 12345) % 65537

RngNext(x) == (x * 75 + 74) % 65537

\* a swap that loses the card at position i
Swap_overwrite(s, i, j) == [s EXCEPT ![i] = s[j]]

Swap(s, i, j) == [s EXCEPT ![i] = s[j], ![j] = s[i]]

\* deck.shuffle(&mut rng): for i in (1..len).rev() { swap(i, gen_index(rng, i + 1)) }
\* (0-based i; positions are i + 1 here)
RECURSIVE FisherYates(_, _, _)
FisherYates(deck, i, x) ==
    IF i < 1 THEN deck
    ELSE FisherYates(Swap(deck, i + 1, (x % (i + 1)) + 1), i - 1, RngNext(x))

shuffle_deck(randomness) ==
    FisherYates(CanonicalDeck, Len(CanonicalDeck) - 1, RngSeed(randomness))

\* the last n cards of a deck: what is left after Len(deck) - n removals at the front
Remaining(deck, n) == SubSeq(deck, Len(deck) - n + 1, Len(deck))

-----------------------------------------------------------------------------
(* Bets (BetType, SideBetType, lib.rs 420-430) *)

BetTypes == {"High", "Low"}

NoSideBet == [kind |-> "None", flag |-> FALSE]

SideBets ==
    {NoSideBet} \cup {[kind |-> k, flag |-> b] : k \in {"Color", "Parity"}, b \in BOOLEAN}

\* calculate_multiplier_gain (lib.rs 258-314), in hundredths
calculate_multiplier_gain(current_card_value, bet_type) ==
    LET high == bet_type = "High" IN
    CASE current_card_value = 2  -> IF high THEN 120 ELSE 400
      [] current_card_value = 3  -> IF high THEN 125 ELSE 350
      [] current_card_value = 4  -> IF high THEN 130 ELSE 300
      [] current_card_value = 5  -> IF high THEN 135 ELSE 250
      [] current_card_value = 6  -> IF high THEN 140 ELSE 200
      [] current_card_value = 7  -> IF high THEN 150 ELSE 170
      [] current_card_value = 8  -> IF high THEN 160 ELSE 160
      [] current_card_value = 9  -> IF high THEN 180 ELSE 160
      [] current_card_value = 10 -> IF high THEN 200 ELSE 150
      [] current_card_value = 11 -> IF high THEN 250 ELSE 140
      [] current_card_value = 12 -> IF high THEN 300 ELSE 130
      [] current_card_value = 13 -> IF high THEN 400 ELSE 120
      [] current_card_value = 14 -> IF high THEN 120 ELSE 120
      [] OTHER -> 100

\* the side-bet arm of resolve_bet (lib.rs 228-249): 0 stands for None
SideBetResult(current_card, side_bet) ==
    IF side_bet.kind = "Color" THEN
        LET is_red == current_card.suit = "Hearts" \/ current_card.suit = "Diamonds"
        IN  IF side_bet.flag = is_red THEN 1 ELSE -1
    ELSE IF side_bet.kind = "Parity" THEN
        LET is_even == current_card.value % 2 = 0
        IN  IF side_bet.flag = is_even THEN 1 ELSE -1
    ELSE 0

\* a comparison that counts equal ranks as correct
BetCorrect_or_equal(current_card, next_card, bet_type) ==
    IF bet_type = "High" THEN next_card.value >= current_card.value
    ELSE next_card.value <= current_card.value

\* the comparison of resolve_bet (lib.rs 221-224)
BetCorrect(current_card, next_card, bet_type) ==
    IF bet_type = "High" THEN next_card.value > current_card.value
    ELSE next_card.value < current_card.value

NoOutcome == [correct |-> FALSE, multiplier_gain |-> 100, side_bet_result |-> 0]

\* resolve_bet reading the two front cards without removing one
resolve_bet_peek(p, bet_type, side_bet) ==
    IF Len(p.deck) < 2 THEN
        [err |-> "GameOver", player |-> p, outcome |-> NoOutcome]
    ELSE
        [err |-> "Ok",
         player |-> p,
         outcome |->
            [correct |-> BetCorrect(p.deck[1], p.deck[2], bet_type),
             multiplier_gain |-> calculate_multiplier_gain(p.deck[1].value, bet_type),
             side_bet_result |-> SideBetResult(p.deck[1], side_bet)]]

\* resolve_bet (lib.rs 213-256): [err, player, outcome]; `player` is the
\* struct as resolve_bet leaves it, also when it returns an error
resolve_bet(p, bet_type, side_bet) ==
    IF p.deck = <<>> THEN
        [err |-> "GameOver", player |-> p, outcome |-> NoOutcome]
    ELSE
        LET current_card == Head(p.deck)
            popped == [p EXCEPT !.deck = Tail(p.deck)]
        IN  IF popped.deck = <<>> THEN
                [err |-> "GameOver", player |-> popped, outcome |-> NoOutcome]
            ELSE
                LET next_card == Head(popped.deck) IN
                [err |-> "Ok",
                 player |-> popped,
                 outcome |->
                    [correct |-> BetCorrect(current_card, next_card, bet_type),
                     multiplier_gain |->
                        calculate_multiplier_gain(current_card.value, bet_type),
                     side_bet_result |-> SideBetResult(current_card, side_bet)]]

-----------------------------------------------------------------------------
(* The Player account and its handlers *)

NoRandomness == [some |-> FALSE, value |-> 0]

SomeRandomness(r) == [some |-> TRUE, value |-> r]

Seeds == 0..MaxSeed

GameIds == 1..MaxGameId

\* multiplier (f64) is kept as the sequence of gains, in hundredths, that it
\* was multiplied by since it was last set to 1.0: <<>> is 1.0
MULTIPLIER_ONE == <<>>

\* a Player account no handler has touched
FreshPlayer ==
    [game_id |-> 0, start_time |-> 0, multiplier |-> MULTIPLIER_ONE,
     side_bet_score |-> 0, randomness |-> NoRandomness, deck |-> <<>>,
     daily_games |-> 0, finished |-> FALSE]

\* a Player account late in its day: randomness r was received, all but n
\* cards were removed by bets without a side bet in earlier rounds, and the
\* last of DAILY_LIMIT - 1 rounds was started at time 0
LatePlayer(r, n) ==
    [game_id |-> 1, start_time |-> 0, multiplier |-> MULTIPLIER_ONE,
     side_bet_score |-> 0, randomness |-> SomeRandomness(r),
     deck |-> Remaining(shuffle_deck(r), n),
     daily_games |-> DAILY_LIMIT - 1, finished |-> FALSE]

\* receive_randomness without the is_some check
receive_randomness_overwrite(p, randomness) ==
    [result |-> "Ok",
     player |-> [p EXCEPT !.randomness = SomeRandomness(randomness),
                          !.deck = shuffle_deck(randomness)]]

\* receive_randomness (lib.rs 63-75)
receive_randomness(p, randomness) ==
    IF p.randomness.some THEN
        [result |-> "RandomnessAlreadyReceived", player |-> p]
    ELSE
        [result |-> "Ok",
         player |-> [p EXCEPT !.randomness = SomeRandomness(randomness),
                              !.deck = shuffle_deck(randomness)]]

\* start_game with the limit compared by > instead of >=
start_game_off_by_one(p, clock, game_id) ==
    IF p.daily_games > DAILY_LIMIT THEN
        [result |-> "DailyLimitReached", player |-> p]
    ELSE
        [result |-> "Ok",
         player |-> [p EXCEPT !.daily_games = p.daily_games + 1,
                              !.start_time = clock,
                              !.game_id = game_id,
                              !.finished = FALSE,
                              !.multiplier = MULTIPLIER_ONE]]

\* start_game without the reset of finished and multiplier
start_game_no_reset(p, clock, game_id) ==
    IF p.daily_games >= DAILY_LIMIT THEN
        [result |-> "DailyLimitReached", player |-> p]
    ELSE
        [result |-> "Ok",
         player |-> [p EXCEPT !.daily_games = p.daily_games + 1,
                              !.start_time = clock,
                              !.game_id = game_id]]

\* start_game (lib.rs 77-92)
start_game(p, clock, game_id) ==
    IF p.daily_games >= DAILY_LIMIT THEN
        [result |-> "DailyLimitReached", player |-> p]
    ELSE
        [result |-> "Ok",
         player |-> [p EXCEPT !.daily_games = p.daily_games + 1,
                              !.start_time = clock,
                              !.game_id = game_id,
                              !.finished = FALSE,
                              !.multiplier = MULTIPLIER_ONE]]

\* the time check with >= instead of >
BetTimeExpired_at_limit(p, clock) == clock - p.start_time >= BET_SECONDS

\* the time check of place_bet (lib.rs 97)
BetTimeExpired(p, clock) == clock - p.start_time > BET_SECONDS

\* place_bet (lib.rs 94-129): `player` is the struct as the handler leaves it
place_bet(p, clock, bet_type, side_bet) ==
    IF BetTimeExpired(p, clock) THEN
        [result |-> "BetTimeExpired", player |-> p]
    ELSE
        LET r == resolve_bet(p, bet_type, side_bet) IN
        IF r.err # "Ok" THEN
            [result |-> r.err, player |-> r.player]
        ELSE IF ~r.outcome.correct THEN
            [result |-> "GameOver", player |-> [r.player EXCEPT !.finished = TRUE]]
        ELSE
            [result |-> "Ok",
             player |->
                [r.player EXCEPT
                    !.multiplier = Append(r.player.multiplier, r.outcome.multiplier_gain),
                    !.side_bet_score = r.player.side_bet_score + r.outcome.side_bet_result]]

\* What the account holds after a call: the entry point generated by
\* #[program] writes the account struct back only when the handler returns
\* Ok, and a failed transaction is discarded as a whole (atomic); without
\* that environment the struct stays as the handler left it.
Commit(result, old, new) == IF atomic /\ result # "Ok" THEN old ELSE new

NoBet == [bet_type |-> "None", side_bet |-> NoSideBet]

NoSigner == "none"

\* the record of a call: entry point, result, the position asked for
\* (claim_prize) or the game_id (start_game), the prize of the PrizeClaimed
\* event, the bet (place_bet, when the call gets to compare two cards) and the
\* signer (finalize_leaderboard, claim_prize)
Call(op, result, arg, prize) ==
    [op |-> op, result |-> result, arg |-> arg, prize |-> prize,
     bet |-> NoBet, signer |-> NoSigner]

-----------------------------------------------------------------------------
(* The State account and its handlers *)

ADMIN == "admin"

Players == {"alice", "bob"}

Signers == {ADMIN} \cup Players

STATE_ACCOUNT == "state"

MaxEntries == 4
MaxPosition == 3

Positions == 0..MaxPosition

Entry(who, score) == [player |-> who, score |-> score]

\* the entries submitted before the finalize, in submission order; the
\* submission itself is outside the program
Submitted(n) ==
    [i \in 1..n |-> Entry(IF i % 2 = 1 THEN "alice" ELSE "bob", (2 * i) % 3)]

\* the State account before initialize has created it
NoState ==
    [initialized |-> FALSE, admin |-> ADMIN, entry_fee |-> 0, start_time |-> 0,
     end_time |-> 0, leaderboard_size |-> 0, leaderboard |-> <<>>,
     finalized |-> FALSE, finalized_timestamp |-> 0, pool |-> U64Zero]

\* initialize (lib.rs 13-39)
initialize(st, admin, start_time, end_time, entry_fee) ==
    IF start_time >= end_time THEN
        [result |-> "InvalidStartTime", state |-> st]
    ELSE IF entry_fee = 0 THEN
        [result |-> "InvalidEntryFee", state |-> st]
    ELSE
        [result |-> "Ok",
         state |-> [initialized |-> TRUE, admin |-> admin, entry_fee |-> entry_fee,
                    start_time |-> start_time, end_time |-> end_time,
                    leaderboard_size |-> LEADERBOARD_SIZE,
                    leaderboard |-> st.leaderboard,
                    finalized |-> FALSE, finalized_timestamp |-> 0,
                    pool |-> U64Zero]]

\* the State account once it was initialized by ADMIN, entries were
\* submitted and the pool was funded from outside
FundedState(entries, pool) ==
    [initialize(NoState, ADMIN, 0, 1, 1).state EXCEPT
        !.leaderboard = entries, !.pool = pool]

\* a comparator the wrong way round: a.score.cmp(&b.score)
RECURSIVE InsertByScore_ascending(_, _)
InsertByScore_ascending(sorted, e) ==
    IF sorted = <<>> THEN <<e>>
    ELSE IF Head(sorted).score <= e.score
         THEN <<Head(sorted)>> \o InsertByScore_ascending(Tail(sorted), e)
         ELSE <<e>> \o sorted

\* leaderboard.sort_by(|a, b| b.score.cmp(&a.score)) (lib.rs 139): a stable
\* sort, so an entry goes behind every entry whose score is not lower
RECURSIVE InsertByScore(_, _)
InsertByScore(sorted, e) ==
    IF sorted = <<>> THEN <<e>>
    ELSE IF Head(sorted).score >= e.score
         THEN <<Head(sorted)>> \o InsertByScore(Tail(sorted), e)
         ELSE <<e>> \o sorted

RECURSIVE SortByScoreDesc(_)
SortByScoreDesc(entries) ==
    IF entries = <<>> THEN <<>>
    ELSE InsertByScore(SortByScoreDesc(SubSeq(entries, 1, Len(entries) - 1)),
                       entries[Len(entries)])

\* Vec::truncate (lib.rs 140)
Truncate(entries, n) ==
    IF Len(entries) > n THEN SubSeq(entries, 1, n) ELSE entries

\* finalize_leaderboard without its admin check
finalize_leaderboard_anyone(st, signer, clock) ==
    [result |-> "Ok",
     state |-> [st EXCEPT
        !.leaderboard = Truncate(SortByScoreDesc(st.leaderboard), st.leaderboard_size),
        !.finalized = TRUE,
        !.finalized_timestamp = clock]]

\* finalize_leaderboard (lib.rs 131-151)
finalize_leaderboard(st, signer, clock) ==
    IF signer # st.admin THEN
        [result |-> "Unauthorized", state |-> st]
    ELSE
        [result |-> "Ok",
         state |-> [st EXCEPT
            !.leaderboard = Truncate(SortByScoreDesc(st.leaderboard), st.leaderboard_size),
            !.finalized = TRUE,
            !.finalized_timestamp = clock]]

\* the end of the claim window (lib.rs 160)
ClaimDeadline(st) == st.finalized_timestamp + CLAIM_HOURS * SECONDS_PER_HOUR

\* the window check with >= instead of >
WindowClosed_late(st, clock) == clock >= ClaimDeadline(st)

\* the window check of claim_prize (lib.rs 160)
WindowClosed(st, clock) == clock > ClaimDeadline(st)

\* the match on position (lib.rs 168-173): 0 stands for the `_` arm
prize_percentage(position) ==
    CASE position = 0 -> 50
      [] position = 1 -> 30
      [] position = 2 -> 20
      [] OTHER -> 0

\* the amount computed with a wrapping multiplication
PrizeAmount_wrapping(pool, pct) ==
    U64CheckedDiv(U64CheckedMul(pool, pct).val, PERCENT_BASE)

\* pool.checked_mul(pct).and_then(|total| total.checked_div(100)) (lib.rs 175-179)
PrizeAmount(pool, pct) ==
    LET total == U64CheckedMul(pool, pct) IN
    IF ~total.ok THEN [ok |-> FALSE, val |-> U64Zero]
    ELSE U64CheckedDiv(total.val, PERCENT_BASE)

\* the two lamport writes (lib.rs 181-182).  `-=` and `+=` on u64 panic on
\* overflow in a build with overflow checks and wrap in one without: both
\* outcomes are kept.  A panic at the credit comes after the debit was
\* written.
Transfer(lam, wallet, amount) ==
    LET debit  == U64Sub(lam[STATE_ACCOUNT], amount)
        lam1   == [lam EXCEPT ![STATE_ACCOUNT] = debit.val]
        credit == U64Add(lam1[wallet], amount)
        lam2   == [lam1 EXCEPT ![wallet] = credit.val]
    IN  (IF debit.overflow THEN {[result |-> "Panic", lamports |-> lam]} ELSE {})
        \cup
        (IF credit.overflow THEN {[result |-> "Panic", lamports |-> lam1]} ELSE {})
        \cup
        {[result |-> "Ok", lamports |-> lam2]}

\* claim_prize (lib.rs 153-191): the set of [result, lamports, prize] the
\* call can end with; the State account itself is not written
claim_prize(st, lam, clock, position, wallet) ==
    LET fail(e) == {[result |-> e, lamports |-> lam, prize |-> U64Zero]} IN
    IF ~st.finalized THEN fail("PrizeWindowExpired")
    ELSE IF WindowClosed(st, clock) THEN fail("PrizeWindowExpired")
    ELSE IF position >= Len(st.leaderboard) THEN fail("NotOnLeaderboard")
    ELSE IF prize_percentage(position) = 0 THEN fail("NotOnLeaderboard")
    ELSE
        LET amount == PrizeAmount(st.pool, prize_percentage(position)) IN
        IF ~amount.ok THEN fail("ArithmeticError")
        ELSE {[result |-> t.result, lamports |-> t.lamports,
               prize |-> IF t.result = "Ok" THEN amount.val ELSE U64Zero] :
                t \in Transfer(lam, wallet, amount.val)}

-----------------------------------------------------------------------------
(* Initial states *)

\* the largest pool whose 50% share is computed without overflow, the next
\* one, and the values of the prize examples
InitPools ==
    LET edge == U64CheckedDiv(U64Max, prize_percentage(0)).val IN
    {U64FromNat(99), U64FromNat(100), edge, U64Add(edge, U64FromNat(1)).val, U64Max}

LateSeeds == 0..MaxLateSeed

InitPlayers == {FreshPlayer} \cup {LatePlayer(r, LateCards) : r \in LateSeeds}

InitStates ==
    {NoState} \cup
    {FundedState(Submitted(n), pool) : n \in 0..MaxEntries, pool \in InitPools}

\* the state account holds the pool; the wallets start empty
InitLamports(st) ==
    [a \in {STATE_ACCOUNT} \cup Players |->
        IF a = STATE_ACCOUNT THEN st.pool ELSE U64Zero]

InitWith(players, states, atom) ==
    /\ player \in players
    /\ state \in states
    /\ lamports = InitLamports(state)
    /\ now = 0
    /\ atomic = atom
    /\ last = Call("None", "Ok", 0, U64Zero)
    /\ nTicks = 0
    /\ nBets = 0
    /\ nClaims = 0
    /\ paid = {}

Init == InitWith(InitPlayers, InitStates, FALSE)

\* the session handlers alone, beside an initialized State account
InitSession == InitWith(InitPlayers, {FundedState(<<>>, U64Zero)}, FALSE)

\* the State handlers alone, beside an untouched Player account
InitPrize == InitWith({FreshPlayer}, InitStates, FALSE)

\* the session handlers where a failed call's writes are discarded
InitTx == InitWith({FreshPlayer}, {FundedState(<<>>, U64Zero)}, TRUE)

-----------------------------------------------------------------------------
(* Actions: one per entry point, and the clock *)

SecondsDeltas == {1, BET_SECONDS}

HoursDeltas == {1, CLAIM_HOURS * SECONDS_PER_HOUR}

Tick(d) ==
    /\ nTicks < MaxTicks
    /\ now' = now + d
    /\ nTicks' = nTicks + 1
    /\ UNCHANGED <<player, state, lamports, atomic, last, nBets, nClaims, paid>>

InitializeGame ==
    /\ ~state.initialized
    /\ \E start_time \in 0..1, end_time \in 0..1, entry_fee \in 0..1 :
         LET c == initialize(state, ADMIN, start_time, end_time, entry_fee) IN
         /\ state' = Commit(c.result, state, c.state)
         /\ last' = Call("InitializeGame", c.result, 0, U64Zero)
    /\ UNCHANGED <<player, lamports, now, atomic, nTicks, nBets, nClaims, paid>>

ReceiveRandomness ==
    /\ \E randomness \in Seeds :
         LET c == receive_randomness(player, randomness) IN
         /\ player' = Commit(c.result, player, c.player)
         /\ last' = Call("ReceiveRandomness", c.result, 0, U64Zero)
    /\ UNCHANGED <<state, lamports, now, atomic, nTicks, nBets, nClaims, paid>>

StartRound ==
    /\ state.initialized
    /\ \E game_id \in GameIds :
         LET c == start_game(player, now, game_id) IN
         /\ player' = Commit(c.result, player, c.player)
         /\ last' = Call("StartRound", c.result, game_id, U64Zero)
    /\ UNCHANGED <<state, lamports, now, atomic, nTicks, nBets, nClaims, paid>>

PlaceBet ==
    /\ nBets < MaxBets
    /\ \E bet_type \in BetTypes, side_bet \in SideBets :
         LET c == place_bet(player, now, bet_type, side_bet) IN
         /\ player' = Commit(c.result, player, c.player)
         /\ last' = [Call("PlaceBet", c.result, 0, U64Zero) EXCEPT
                       !.bet = IF ~BetTimeExpired(player, now) /\ Len(player.deck) >= 2
                               THEN [bet_type |-> bet_type, side_bet |-> side_bet]
                               ELSE NoBet]
    /\ nBets' = IF ~BetTimeExpired(player, now) /\ player.deck # <<>>
                THEN nBets + 1 ELSE nBets
    /\ UNCHANGED <<state, lamports, now, atomic, nTicks, nClaims, paid>>

FinalizeLeaderboard ==
    /\ state.initialized
    /\ \E signer \in Signers :
         LET c == finalize_leaderboard(state, signer, now) IN
         /\ state' = Commit(c.result, state, c.state)
         /\ last' = [Call("FinalizeLeaderboard", c.result, 0, U64Zero) EXCEPT
                       !.signer = signer]
    /\ UNCHANGED <<player, lamports, now, atomic, nTicks, nBets, nClaims, paid>>

ClaimPrize ==
    /\ state.initialized
    /\ nClaims < MaxClaims
    /\ \E requester \in Players, position \in Positions, wallet \in Players :
         \E c \in claim_prize(state, lamports, now, position, wallet) :
            /\ lamports' = Commit(c.result, lamports, c.lamports)
            /\ last' = [Call("ClaimPrize", c.result, position, c.prize) EXCEPT
                          !.signer = requester]
            /\ paid' = IF c.result = "Ok" THEN paid \cup {position} ELSE paid
    /\ nClaims' = IF lamports' # lamports THEN nClaims + 1 ELSE nClaims
    /\ UNCHANGED <<player, state, now, atomic, nTicks, nBets>>

NextSession ==
    \/ ReceiveRandomness
    \/ StartRound
    \/ PlaceBet
    \/ \E d \in SecondsDeltas : Tick(d)

NextPrize ==
    \/ InitializeGame
    \/ FinalizeLeaderboard
    \/ ClaimPrize
    \/ \E d \in HoursDeltas : Tick(d)

Next == NextSession \/ NextPrize

Spec == Init /\ [][Next]_vars

SpecSession == InitSession /\ [][NextSession]_vars

SpecPrize == InitPrize /\ [][NextPrize]_vars

SpecTx == InitTx /\ [][NextSession]_vars

-----------------------------------------------------------------------------
(* Properties *)

\* a step that is a call of entry point `op` (any step but a clock advance
\* records its entry point in last)
CallStep(op) == nTicks' = nTicks /\ last'.op = op

\* a step that is a call of any entry point
AnyCallStep == nTicks' = nTicks /\ last'.op # "None"

\* C1: once finished is true, every further PlaceBet on the session fails
\* and resolves nothing: deck, multiplier and side_bet_score stay as they
\* were (finished is cleared only by a successful StartRound).
C1_FinishedBlocksBets ==
    [][(player.finished /\ CallStep("PlaceBet")) =>
          /\ last'.result # "Ok"
          /\ player'.deck = player.deck
          /\ player'.multiplier = player.multiplier
          /\ player'.side_bet_score = player.side_bet_score]_vars

\* C2: FinalizeLeaderboard takes effect at most once: once finalized, a
\* later FinalizeLeaderboard call is rejected and leaderboard, finalized
\* and finalized_timestamp keep the values of the first finalize.
C2_FinalizeOnce ==
    [][(state.finalized /\ CallStep("FinalizeLeaderboard")) =>
          /\ last'.result # "Ok"
          /\ state'.leaderboard = state.leaderboard
          /\ state'.finalized = state.finalized
          /\ state'.finalized_timestamp = state.finalized_timestamp]_vars

\* a PlaceBet that reaches the comparison of two cards: in time, with a
\* next card behind the front card
ReachesComparison(p, clock) ==
    clock - p.start_time <= BET_SECONDS /\ Len(p.deck) >= 2

\* C3: a PlaceBet that resolves an incorrect bet reports GameOver, and the
\* session it leaves behind has finished = true, with multiplier and
\* side_bet_score as they were before the call.
C3_GameOverCommitsFinished ==
    [][(CallStep("PlaceBet") /\ ReachesComparison(player, now)
            /\ last'.result = "GameOver") =>
          /\ player'.finished
          /\ player'.multiplier = player.multiplier
          /\ player'.side_bet_score = player.side_bet_score]_vars

\* C4: a call of any entry point that returns an error leaves the Player
\* account, the State account and the balances as they were, but for the
\* finished flag that a PlaceBet ending with GameOver sets.
C4_ErrorsChangeNothing ==
    [][(AnyCallStep /\ last'.result # "Ok") =>
          /\ [player' EXCEPT !.finished = player.finished] = player
          /\ (player'.finished # player.finished =>
                last'.op = "PlaceBet" /\ last'.result = "GameOver")
          /\ state' = state
          /\ lamports' = lamports]_vars

\* C5: randomness is write-once: ReceiveRandomness succeeds only while
\* randomness is unset, and then sets randomness and deck =
\* shuffle_deck(randomness); a later call fails with
\* RandomnessAlreadyReceived and changes nothing; no other entry point
\* changes or clears randomness.
C5_RandomnessWriteOnce ==
    [][/\ (CallStep("ReceiveRandomness") /\ ~player.randomness.some) =>
            /\ last'.result = "Ok"
            /\ player'.randomness.some
            /\ player'.deck = shuffle_deck(player'.randomness.value)
       /\ (CallStep("ReceiveRandomness") /\ player.randomness.some) =>
            /\ last'.result = "RandomnessAlreadyReceived"
            /\ player' = player
       /\ player.randomness.some => player'.randomness = player.randomness
       /\ ~CallStep("ReceiveRandomness") => player'.randomness = player.randomness
      ]_vars

\* a second ReceiveRandomness was rejected on a session that has started rounds
C5_Witness ==
    /\ last.op = "ReceiveRandomness"
    /\ last.result = "RandomnessAlreadyReceived"
    /\ player.randomness.some
    /\ Len(player.deck) = Len(CanonicalDeck)
    /\ player.daily_games > 0

\* C6: StartRound succeeds iff daily_games < 10 and then adds exactly one
\* to it; otherwise it fails with DailyLimitReached and changes nothing;
\* daily_games never exceeds 10 and no other entry point changes it.
C6_DailyLimit ==
    /\ [](player.daily_games <= DAILY_LIMIT)
    /\ [][/\ CallStep("StartRound") =>
                IF player.daily_games < 10
                THEN /\ last'.result = "Ok"
                     /\ player'.daily_games = player.daily_games + 1
                ELSE /\ last'.result = "DailyLimitReached"
                     /\ player' = player
          /\ ~CallStep("StartRound") => player'.daily_games = player.daily_games
         ]_vars

\* the tenth round was started and a further StartRound was rejected
C6_Witness ==
    /\ last.op = "StartRound"
    /\ last.result = "DailyLimitReached"
    /\ player.daily_games = 10

\* C7: PlaceBet fails with BetTimeExpired exactly when now - start_time >
\* 60 (not at exactly 60), whatever the deck holds, and then leaves the
\* session unchanged.
C7_BetTimeExpired ==
    [][CallStep("PlaceBet") =>
          /\ (last'.result = "BetTimeExpired") <=> (now - player.start_time > 60)
          /\ last'.result = "BetTimeExpired" => player' = player]_vars

\* a bet 61 seconds after the round start was rejected with one card left
C7_Witness ==
    /\ last.op = "PlaceBet"
    /\ last.result = "BetTimeExpired"
    /\ now - player.start_time = 61
    /\ Len(player.deck) = 1

\* the result the claimed order of checks gives for a ClaimPrize call:
\* "Admitted" when all four checks pass
ClaimChecks(st, clock, position) ==
    IF ~st.finalized THEN "PrizeWindowExpired"
    ELSE IF clock > st.finalized_timestamp + 72 * 3600 THEN "PrizeWindowExpired"
    ELSE IF position >= Len(st.leaderboard) THEN "NotOnLeaderboard"
    ELSE IF position >= 3 THEN "NotOnLeaderboard"
    ELSE "Admitted"

\* C8: ClaimPrize checks, in this order: not finalized ->
\* PrizeWindowExpired; now > finalized_timestamp + 72h -> PrizeWindowExpired
\* (a claim at exactly finalized_timestamp + 72h is admitted); position >=
\* leaderboard length -> NotOnLeaderboard; position >= 3 ->
\* NotOnLeaderboard.  A call that fails one of them pays nothing.
C8_ClaimPreconditions ==
    [][CallStep("ClaimPrize") =>
          LET expected == ClaimChecks(state, now, last'.arg) IN
          IF expected = "Admitted"
          THEN last'.result \notin {"PrizeWindowExpired", "NotOnLeaderboard"}
          ELSE /\ last'.result = expected
               /\ lamports' = lamports
               /\ last'.prize = U64Zero]_vars

\* a claim made exactly 72 hours after the finalize was paid
C8_Witness ==
    /\ last.op = "ClaimPrize"
    /\ last.result = "Ok"
    /\ last.prize # U64Zero
    /\ state.finalized
    /\ now = state.finalized_timestamp + 72 * 3600

\* the percentage of positions 0, 1 and 2
SharePercent(position) ==
    IF position = 0 THEN 50 ELSE IF position = 1 THEN 30 ELSE 20

\* q = floor(n * k / 100), stated by the remainder: 0 <= n * k - q * 100 < 100
IsFloorShare(q, n, k) ==
    LET nk == U64CheckedMul(n, k)
        qd == U64CheckedMul(q, 100)
        r  == U64Sub(nk.val, qd.val)
    IN  /\ nk.ok
        /\ qd.ok
        /\ ~r.overflow
        /\ U64Less(r.val, U64FromNat(100))

\* pool * k does not fit in 64 bits: pool > floor((2^64 - 1) / k)
ShareOverflows(pool, k) == U64Less(U64CheckedDiv(U64Max, k).val, pool)

\* C9: an admitted claim pays floor(pool * p / 100) with p = 50, 30, 20
\* for positions 0, 1, 2 (pool 100, position 0: 50; pool 99, position 2:
\* 19); when pool * p does not fit in 64 bits the claim fails with
\* ArithmeticError and no balance changes.
C9_PrizeAmount ==
    [][(CallStep("ClaimPrize") /\ ClaimChecks(state, now, last'.arg) = "Admitted") =>
          LET p == SharePercent(last'.arg) IN
          IF ShareOverflows(state.pool, p)
          THEN /\ last'.result = "ArithmeticError"
               /\ lamports' = lamports
               /\ state' = state
          ELSE /\ last'.result # "ArithmeticError"
               /\ last'.result = "Ok" =>
                    /\ IsFloorShare(last'.prize, state.pool, p)
                    /\ lamports'[STATE_ACCOUNT] =
                          U64Sub(lamports[STATE_ACCOUNT], last'.prize).val
                    /\ (state.pool = U64FromNat(100) /\ last'.arg = 0) =>
                          last'.prize = U64FromNat(50)
                    /\ (state.pool = U64FromNat(99) /\ last'.arg = 2) =>
                          last'.prize = U64FromNat(19)]_vars

\* a claim of the 50% share of a pool above floor((2^64 - 1) / 50) failed
C9_Witness ==
    /\ last.op = "ClaimPrize"
    /\ last.result = "ArithmeticError"
    /\ last.arg = 0
    /\ state.pool # U64Max

\* C10: a successful ClaimPrize takes exactly the amount from the pool and
\* adds exactly the amount to one wallet, so that the pool the next claim's
\* percentage is taken of is the decremented one.
C10_PoolDecremented ==
    [][(CallStep("ClaimPrize") /\ last'.result = "Ok") =>
          /\ state'.pool = U64Sub(state.pool, last'.prize).val
          /\ lamports'[STATE_ACCOUNT] = U64Sub(lamports[STATE_ACCOUNT], last'.prize).val
          /\ \E w \in Players :
                /\ lamports'[w] = U64Add(lamports[w], last'.prize).val
                /\ \A v \in Players \ {w} : lamports'[v] = lamports[v]]_vars

-----------------------------------------------------------------------------
(* finalize_leaderboard over every short leaderboard *)

MaxScore == 2

Scores == 1..MaxScore

\* every leaderboard of at most MaxEntries entries, in any submission order
AnyEntries ==
    UNION {[1..n -> {Entry(who, score) : who \in Players, score \in Scores}] :
           n \in 0..MaxEntries}

InitLeaderboard ==
    InitWith({FreshPlayer}, {FundedState(entries, U64Zero) : entries \in AnyEntries}, FALSE)

NextLeaderboard ==
    \/ FinalizeLeaderboard
    \/ \E d \in HoursDeltas : Tick(d)

SpecLeaderboard == InitLeaderboard /\ [][NextLeaderboard]_vars

IsSortedDesc(entries) ==
    \A i, j \in 1..Len(entries) : i < j => entries[i].score >= entries[j].score

Count(entries, e) == Cardinality({i \in 1..Len(entries) : entries[i] = e})

\* `kept` is a sub-multiset of `all` and no entry left out has a higher
\* score than an entry kept
IsTopOf(kept, all) ==
    /\ \A i \in 1..Len(kept) : Count(kept, kept[i]) <= Count(all, kept[i])
    /\ \A i \in 1..Len(all) :
         Count(kept, all[i]) < Count(all, all[i]) =>
            \A k \in 1..Len(kept) : kept[k].score >= all[i].score

\* C11: after a successful FinalizeLeaderboard the leaderboard is ordered by
\* score descending, its length is the smaller of the capacity and the number
\* of entries before, it holds the highest-scoring entries of the multiset
\* before, finalized is true and finalized_timestamp is the time of the call;
\* sorting and truncating the result again changes nothing.
C11_FinalizeSortsAndTruncates ==
    [][CallStep("FinalizeLeaderboard") /\ last'.result = "Ok" =>
        LET before == state.leaderboard
            after == state'.leaderboard
            capacity == state.leaderboard_size IN
        /\ IsSortedDesc(after)
        /\ Len(after) = IF Len(before) < capacity THEN Len(before) ELSE capacity
        /\ IsTopOf(after, before)
        /\ state'.finalized
        /\ state'.finalized_timestamp = now
        /\ Truncate(SortByScoreDesc(after), capacity) = after]_vars

\* a finalize at a later time filled the leaderboard to its capacity with
\* entries of different scores
C11_Witness ==
    /\ last.op = "FinalizeLeaderboard" /\ last.result = "Ok"
    /\ state.finalized /\ state.finalized_timestamp = now /\ now > 0
    /\ Len(state.leaderboard) = LEADERBOARD_SIZE
    /\ state.leaderboard[1].score > state.leaderboard[LEADERBOARD_SIZE].score

-----------------------------------------------------------------------------
(* the session handlers and the State handlers side by side, on an        *)
(* initialized State account, with room for one more clock advance, one   *)
(* more resolved bet and one more paying claim                            *)

InitProgram ==
    /\ player = FreshPlayer
    /\ state = FundedState(Submitted(MaxEntries), U64FromNat(PERCENT_BASE))
    /\ lamports = InitLamports(state)
    /\ now = 0
    /\ atomic = FALSE
    /\ last = Call("None", "Ok", 0, U64Zero)
    /\ nTicks = MaxTicks - 1
    /\ nBets = MaxBets - 1
    /\ nClaims = MaxClaims - 1
    /\ paid = {}

NextProgram ==
    \/ ReceiveRandomness
    \/ StartRound
    \/ PlaceBet
    \/ FinalizeLeaderboard
    \/ ClaimPrize
    \/ \E d \in SecondsDeltas : Tick(d)

SpecProgram == InitProgram /\ [][NextProgram]_vars

\* C12: leaderboard, finalized and finalized_timestamp change only in a
\* FinalizeLeaderboard call signed by the stored admin; a call signed by
\* anyone else returns Unauthorized and changes nothing; StartRound, PlaceBet,
\* ReceiveRandomness and ClaimPrize leave the three fields alone; finalized
\* never goes back from true to false.
C12_OnlyAdminFinalizes ==
    [][/\ (\/ state'.leaderboard # state.leaderboard
           \/ state'.finalized # state.finalized
           \/ state'.finalized_timestamp # state.finalized_timestamp)
          => /\ CallStep("FinalizeLeaderboard")
             /\ last'.signer = state.admin
             /\ last'.result = "Ok"
       /\ CallStep("FinalizeLeaderboard") /\ last'.signer # state.admin
          => last'.result = "Unauthorized" /\ state' = state
       /\ state.finalized => state'.finalized]_vars

\* after an admin finalize, a paid claim and a resolved bet, a finalize
\* signed by a player was refused
C12_Witness ==
    /\ last.op = "FinalizeLeaderboard" /\ last.result = "Unauthorized"
    /\ last.signer \in Players
    /\ state.finalized /\ Len(state.leaderboard) = LEADERBOARD_SIZE
    /\ paid # {}
    /\ player.randomness.some /\ Len(player.deck) < Len(CanonicalDeck)

-----------------------------------------------------------------------------

\* C13: a successful StartRound sets multiplier to 1.0 and finished to false
\* whatever they were, sets start_time to the time of the call and game_id to
\* its argument, and leaves deck, randomness and side_bet_score as they were.
C13_StartRoundResets ==
    [][CallStep("StartRound") /\ last'.result = "Ok" =>
        /\ player'.multiplier = MULTIPLIER_ONE
        /\ ~player'.finished
        /\ player'.start_time = now
        /\ player'.game_id = last'.arg
        /\ player'.deck = player.deck
        /\ player'.randomness = player.randomness
        /\ player'.side_bet_score = player.side_bet_score]_vars

\* a round was started at a later time on a session that had resolved a
\* bet with a side bet
C13_Witness ==
    /\ last.op = "StartRound" /\ last.result = "Ok"
    /\ player.multiplier = MULTIPLIER_ONE /\ ~player.finished
    /\ player.start_time = now /\ now > 0
    /\ player.game_id = last.arg
    /\ player.side_bet_score # 0
    /\ player.deck # <<>> /\ Len(player.deck) < Len(CanonicalDeck)

-----------------------------------------------------------------------------
(* receive_randomness over many seeds *)

MaxShuffleSeed == 127

ShuffleSeeds == 0..MaxShuffleSeed

ReceiveAnyRandomness ==
    /\ \E randomness \in ShuffleSeeds :
         LET c == receive_randomness(player, randomness) IN
         /\ player' = Commit(c.result, player, c.player)
         /\ last' = Call("ReceiveRandomness", c.result, 0, U64Zero)
    /\ UNCHANGED <<state, lamports, now, atomic, nTicks, nBets, nClaims, paid>>

InitShuffle == InitWith({FreshPlayer}, {FundedState(<<>>, U64Zero)}, FALSE)

NextShuffle == ReceiveAnyRandomness

SpecShuffle == InitShuffle /\ [][NextShuffle]_vars

\* the 52 cards: each of the four suits with each rank 2..14
AllCards == {Card(SUITS[k], v) : k \in 1..Len(SUITS), v \in MIN_RANK..MAX_RANK}

\* C14: for every seed the shuffled deck has 52 cards and is a permutation
\* of the canonical deck (every suit with every rank 2..14, each once).
C14_ShuffleIsPermutation ==
    player.randomness.some =>
        /\ Len(player.deck) = 52
        /\ {player.deck[i] : i \in 1..Len(player.deck)} = AllCards
        /\ Cardinality(AllCards) = Len(player.deck)

\* a seed was received whose deck is not in the canonical order
C14_Witness ==
    /\ last.op = "ReceiveRandomness" /\ last.result = "Ok"
    /\ player.randomness = SomeRandomness(MaxShuffleSeed)
    /\ Len(player.deck) = Len(CanonicalDeck)
    /\ player.deck # CanonicalDeck

-----------------------------------------------------------------------------

\* C15: a bet that reaches the comparison is correct (PlaceBet returns Ok)
\* exactly when the next card's rank is strictly higher (High) or strictly
\* lower (Low) than the removed card's; on equal ranks both directions are
\* incorrect and the round ends (GameOver, finished = true).
C15_StrictComparison ==
    [][CallStep("PlaceBet") /\ ReachesComparison(player, now) =>
        LET current_card == player.deck[1]
            next_card == player.deck[2]
            bet_type == last'.bet.bet_type IN
        /\ bet_type = "High" =>
              (last'.result = "Ok" <=> next_card.value > current_card.value)
        /\ bet_type = "Low" =>
              (last'.result = "Ok" <=> next_card.value < current_card.value)
        /\ bet_type \in BetTypes
        /\ last'.result # "Ok" => last'.result = "GameOver" /\ player'.finished
        /\ next_card.value = current_card.value => last'.result = "GameOver"]_vars

\* a bet was resolved on two cards of equal rank: the card removed from the
\* shuffled deck and the card now at the front
C15_Witness ==
    /\ last.op = "PlaceBet" /\ last.result = "GameOver"
    /\ player.finished
    /\ player.randomness.some
    /\ player.deck # <<>>
    /\ LET full == shuffle_deck(player.randomness.value)
           k == Len(full) - Len(player.deck) IN
       /\ k >= 1
       /\ Remaining(full, Len(player.deck)) = player.deck
       /\ full[k].value = player.deck[1].value

-----------------------------------------------------------------------------

\* the decks of the seeds a session can hold
ShuffledDecks == [r \in Seeds \cup LateSeeds |-> shuffle_deck(r)]

IsSuffix(deck, full) ==
    Len(deck) <= Len(full) /\ deck = Remaining(full, Len(deck))

NoDuplicates(deck) ==
    Cardinality({deck[i] : i \in 1..Len(deck)}) = Len(deck)

-----------------------------------------------------------------------------

\* C17: a PlaceBet with a correct outcome multiplies multiplier by the gain
\* the payout table gives for the removed card's rank and the direction
\* (rank 2 High 1.2, rank 2 Low 4.0, rank 14 either way 1.2), adds +1 to
\* side_bet_score when the side bet matches the removed card (Color: Hearts
\* and Diamonds are red; Parity: the rank is even), -1 when it does not and
\* nothing without a side bet, and leaves finished false; no other call
\* changes multiplier or side_bet_score, except that a successful StartRound
\* resets multiplier.
C17_CorrectBetEffects ==
    [][/\ CallStep("PlaceBet") /\ last'.result = "Ok" =>
            LET popped == player.deck[1]
                bet_type == last'.bet.bet_type
                side_bet == last'.bet.side_bet
                is_red == popped.suit \in {"Hearts", "Diamonds"}
                is_even == popped.value % 2 = 0
                matches == IF side_bet.kind = "Color" THEN side_bet.flag = is_red
                           ELSE side_bet.flag = is_even
                delta == IF side_bet = NoSideBet THEN 0
                         ELSE IF matches THEN 1 ELSE -1 IN
            /\ player'.multiplier =
                  Append(player.multiplier,
                         calculate_multiplier_gain(popped.value, bet_type))
            /\ player'.side_bet_score = player.side_bet_score + delta
            /\ ~player'.finished
       /\ calculate_multiplier_gain(MIN_RANK, "High") = 120
       /\ calculate_multiplier_gain(MIN_RANK, "Low") = 400
       /\ calculate_multiplier_gain(MAX_RANK, "High") = 120
       /\ calculate_multiplier_gain(MAX_RANK, "Low") = 120
       /\ (\/ player'.multiplier # player.multiplier
           \/ player'.side_bet_score # player.side_bet_score)
          => \/ CallStep("PlaceBet") /\ last'.result = "Ok"
             \/ /\ CallStep("StartRound") /\ last'.result = "Ok"
                /\ player'.multiplier = MULTIPLIER_ONE
                /\ player'.side_bet_score = player.side_bet_score]_vars

-----------------------------------------------------------------------------

\* what the wallets hold: they start empty, so it is the total paid out
TotalPaid(lam) == U64Add(lam["alice"], lam["bob"])

\* C18: over any sequence of ClaimPrize calls after a finalize each position
\* is paid at most once, and the total paid never exceeds the pool balance
\* at finalization.
C18_PaidAtMostOnce ==
    [][CallStep("ClaimPrize") /\ last'.result = "Ok" =>
        /\ last'.arg \notin paid
        /\ ~TotalPaid(lamports').overflow
        /\ ~U64Less(state.pool, TotalPaid(lamports').val)]_vars

-----------------------------------------------------------------------------

\* C19: ClaimPrize for a position pays only when the requester is the
\* player recorded at that position of the leaderboard; nobody else's
\* wallet receives that position's share.
C19_OnlyRankedPlayerIsPaid ==
    [][CallStep("ClaimPrize") /\ last'.result = "Ok" =>
        LET ranked == state.leaderboard[last'.arg + 1].player IN
        /\ last'.signer = ranked
        /\ \A w \in Players : lamports'[w] # lamports[w] => w = ranked]_vars

-----------------------------------------------------------------------------

\* C20: a PlaceBet made in time on a deck with no card to compare (empty, or
\* a single card, so that nothing follows the removed one) returns GameOver
\* and leaves the session finished (finished = true), as an incorrect bet
\* does; a successful bet needs two cards, so a deck of 52 allows at most 51.
C20_NoCardEndsSession ==
    [][/\ CallStep("PlaceBet") /\ ~BetTimeExpired(player, now)
          /\ Len(player.deck) <= 1
          => last'.result = "GameOver" /\ player'.finished
       /\ CallStep("PlaceBet") /\ last'.result = "Ok"
          => Len(player.deck) >= 2]_vars

====
